---- MODULE Spec2Model ----
(***************************************************************************)
(* A model of tidal_analysis.py: the tide-gauge record parser, the series  *)
(* fuser, the year/section slicers, the trend estimator, the continuity    *)
(* analysis and the harmonic-analysis set-up.                              *)
(*                                                                         *)
(* A DataFrame is a record [rows, cols, tz]: rows is the sequence of its   *)
(* rows in storage order, each [t, sl, res] with t the wall-clock          *)
(* timestamp of the index in seconds since 1945-01-01 00:00:00, sl the     *)
(* 'Sea Level' cell and res the cell of the fourth column; cols is the     *)
(* columns Index; tz is the timezone of the DatetimeIndex.  The cells of   *)
(* the 'Date' and 'Time' columns are never read after the index is built   *)
(* and are not carried.  Cells are exact rationals [n, d]; the not-a-      *)
(* number cell is [n |-> 0, d |-> 0].  Floating-point rounding is not      *)
(* modelled.                                                               *)
(***************************************************************************)
EXTENDS Integers, Sequences, FiniteSets

VARIABLES data, input, op, args, ret

vars == <<data, input, op, args, ret>>

----------------------------------------------------------------------------
(* Bounds of the model. *)

\* the longest series a caller hands over
MaxLen == 3
\* the most data lines of a station file
MaxFileLines == 1

----------------------------------------------------------------------------
(* Numbers: exact rationals and NaN. *)

NaN == [n |-> 0, d |-> 0]

IsNaN(x) == x.n = 0 /\ x.d = 0

\* a finite float that a numerical library computes and the model does not
Finite == [n |-> 1, d |-> 0]

Abs(i) == IF i < 0 THEN -i ELSE i

RECURSIVE Gcd(_, _)
Gcd(a, b) == IF b = 0 THEN a ELSE Gcd(b, a % b)

Rat(num, den) ==
    LET g == Gcd(Abs(num), Abs(den))
        s == IF den < 0 THEN -1 ELSE 1
    IN  [n |-> s * (num \div g), d |-> s * (den \div g)]

Num(i) == [n |-> i, d |-> 1]

\* float subtraction: NaN propagates
Minus(a, b) ==
    IF IsNaN(a) \/ IsNaN(b) THEN NaN
    ELSE Rat(a.n * b.d - b.n * a.d, a.d * b.d)

Plus(a, b) ==
    IF IsNaN(a) \/ IsNaN(b) THEN NaN
    ELSE Rat(a.n * b.d + b.n * a.d, a.d * b.d)

RECURSIVE SumSeq(_)
SumSeq(s) == IF s = <<>> THEN Num(0) ELSE Plus(Head(s), SumSeq(Tail(s)))

HasValue(r) == ~IsNaN(r.sl)

\* DataFrame.dropna(subset=['Sea Level']), on the rows
dropna(rows) == SelectSeq(rows, HasValue)

\* Series.mean(): NaN cells are skipped; NaN when no cell is left
mean(rows) ==
    LET v == dropna(rows)
        s == SumSeq([i \in 1..Len(v) |-> v[i].sl])
    IN  IF v = <<>> THEN NaN ELSE Rat(s.n, s.d * Len(v))

----------------------------------------------------------------------------
(* Calendar: timestamps are seconds since 1945-01-01 00:00:00. *)

SecondsPerHour == 60 * 60

SecondsPerDay == 24 * SecondsPerHour

IsLeap(y) == (y % 4 = 0 /\ y % 100 # 0) \/ y % 400 = 0

DaysInYear(y) == IF IsLeap(y) THEN 366 ELSE 365

RECURSIVE DaysBeforeYear(_)
DaysBeforeYear(y) == IF y <= 1945 THEN 0 ELSE DaysBeforeYear(y - 1) + DaysInYear(y - 1)

DaysBeforeMonth(y, m) ==
    <<0, 31, 59, 90, 120, 151, 181, 212, 243, 273, 304, 334>>[m]
    + (IF m > 2 /\ IsLeap(y) THEN 1 ELSE 0)

\* a calendar date at 00:00:00
Midnight(y, m, d) == (DaysBeforeYear(y) + DaysBeforeMonth(y, m) + (d - 1)) * SecondsPerDay

RECURSIVE YearFrom(_, _)
YearFrom(y, s) ==
    IF s < DaysInYear(y) * SecondsPerDay THEN y
    ELSE YearFrom(y + 1, s - DaysInYear(y) * SecondsPerDay)

\* DatetimeIndex.year of one timestamp
YearOf(t) == YearFrom(1945, t)

\* pd.to_datetime(s, format='%Y%m%d') of the digits s = YYYYMMDD
ParseYmd(s) == Midnight(s \div 10000, (s \div 100) % 100, s % 100)

\* pd.to_datetime(Date + ' ' + Time) of 'YYYY/MM/DD' and 'HH:MM:SS'
to_datetime(date, time) ==
    Midnight(date[1], date[2], date[3])
    + time[1] * SecondsPerHour + time[2] * 60 + time[3]

----------------------------------------------------------------------------
(* DataFrames. *)

\* the columns read_tidal_data names
StdCols == <<"Date", "Time", "Sea Level", "Residual">>

Zones == {"naive", "Etc/GMT-1"}

\* hours east of UTC
UtcOffset(tz) == IF tz = "Etc/GMT-1" THEN 1 ELSE 0

Frame(rows, cols, tz) == [rows |-> rows, cols |-> cols, tz |-> tz]

NoFrame == Frame(<<>>, <<>>, "naive")

\* what a call hands back: a status ("ok" or the exception raised), and the
\* DataFrame, the table or the (slope, p-value) pair returned
Returned(frame, table, trend) ==
    [status |-> "ok", frame |-> frame, table |-> table, trend |-> trend]

NoTrend == [slope |-> NaN, p |-> NaN]

RetFrame(f) == Returned(f, <<>>, NoTrend)

RetTable(tb) == Returned(NoFrame, tb, NoTrend)

RetTrend(tr) == Returned(NoFrame, <<>>, tr)

Raise(e) == [status |-> e, frame |-> NoFrame, table |-> <<>>, trend |-> NoTrend]

Nothing == Returned(NoFrame, <<>>, NoTrend)

RECURSIVE MinT(_)
MinT(rows) ==
    IF Len(rows) = 1 THEN rows[1].t
    ELSE LET m == MinT(Tail(rows)) IN IF rows[1].t < m THEN rows[1].t ELSE m

RECURSIVE MaxT(_)
MaxT(rows) ==
    IF Len(rows) = 1 THEN rows[1].t
    ELSE LET m == MaxT(Tail(rows)) IN IF rows[1].t > m THEN rows[1].t ELSE m

\* Index.is_monotonic_increasing
is_monotonic_increasing(rows) ==
    \A i \in 1..(Len(rows) - 1) : rows[i].t <= rows[i + 1].t

\* every order of the rows picked by idx that ascends by timestamp
RECURSIVE Arrangements(_, _)
Arrangements(rows, idx) ==
    IF idx = {} THEN {<<>>}
    ELSE LET m == CHOOSE t \in {rows[i].t : i \in idx} :
                      \A j \in idx : t <= rows[j].t
             firsts == {i \in idx : rows[i].t = m}
         IN  UNION {{<<rows[i]>> \o s : s \in Arrangements(rows, idx \ {i})} : i \in firsts}

\* a variant that leaves the rows as they are
sort_index_skipped(rows) == {rows}

\* DataFrame.sort_index(): an index already ascending is left as it is; otherwise
\* the rows are argsorted with kind='quicksort', which is not stable, so rows of
\* equal timestamp may come out in any order
sort_index(rows) ==
    IF is_monotonic_increasing(rows) THEN {rows}
    ELSE Arrangements(rows, 1..Len(rows))

----------------------------------------------------------------------------
(* read_tidal_data *)

SkipRows == 10

\* pd.to_numeric(errors='coerce') of one token: a token carrying a quality flag
\* is not a number
to_numeric(tok) == IF tok.flag = "" THEN tok.val ELSE NaN

\* read_csv(skiprows=10) drops ten lines and takes the next one as the column
\* header; every line after it is a data line of the fields
\* cycle, date, time, sea level, residual
read_tidal_data(file) ==
    LET body == SubSeq(file, SkipRows + 2, Len(file))
    IN  Frame([i \in 1..Len(body) |->
                  [t   |-> to_datetime(body[i].date, body[i].time),
                   sl  |-> to_numeric(body[i].sl),
                   res |-> to_numeric(body[i].res)]],
              StdCols, "naive")

----------------------------------------------------------------------------
(* extract_single_year_remove_mean, extract_section_remove_mean *)

remove_mean(rows) ==
    LET m == mean(rows)
    IN  [i \in 1..Len(rows) |-> [rows[i] EXCEPT !.sl = Minus(@, m)]]

extract_single_year_remove_mean(year, d) ==
    LET InYear(r) == YearOf(r.t) = year
    IN  Frame(remove_mean(SelectSeq(d.rows, InYear)), d.cols, d.tz)

\* the upper end of the window: end_date + 1 day - 1 hour
section_end(end) == ParseYmd(end) + SecondsPerDay - SecondsPerHour

\* comparing a timezone-aware index with the naive start_date raises TypeError
extract_section_remove_mean(start, end, d) ==
    LET start_date == ParseYmd(start)
        end_date == section_end(end)
        InSection(r) == r.t >= start_date /\ r.t <= end_date
    IN  IF d.tz # "naive" THEN Raise("TypeError")
        ELSE RetFrame(Frame(remove_mean(SelectSeq(d.rows, InSection)), d.cols, d.tz))

----------------------------------------------------------------------------
(* join_data *)

\* np.array_equal on the two columns Indexes
array_equal(c1, c2) ==
    Len(c1) = Len(c2) /\ \A i \in 1..Len(c1) : c1[i] = c2[i]

\* a variant without the guard on the columns
join_data_unguarded(data1, data2) ==
    {Frame(s, data1.cols, data1.tz) : s \in sort_index(data1.rows \o data2.rows)}

\* a variant that keeps one row per timestamp
join_data_deduplicated(data1, data2) ==
    IF ~array_equal(data1.cols, data2.cols) THEN {data1}
    ELSE LET all == data1.rows \o data2.rows
             first == {i \in 1..Len(all) : \A j \in 1..(i - 1) : all[j].t # all[i].t}
             Keep(r) == \E i \in first : all[i] = r
         IN  {Frame(s, data1.cols, data1.tz) : s \in sort_index(SelectSeq(all, Keep))}

\* the frames join_data may return
join_data(data1, data2) ==
    IF ~array_equal(data1.cols, data2.cols) THEN {data1}
    ELSE {Frame(s, data1.cols, data1.tz) : s \in sort_index(data1.rows \o data2.rows)}

----------------------------------------------------------------------------
(* sea_level_rise *)

\* scipy.stats.linregress(x, y) with x = date2num(index), in days: more than one
\* point with all x identical raises ValueError; one point divides 0 by 0 and
\* gives NaN for slope and p-value; two points give the exact slope and a
\* p-value of 1.0 (equal y) or 0.0; three or more give a least-squares fit
linregress(rows) ==
    LET n == Len(rows)
        dy == Minus(rows[2].sl, rows[1].sl)
        perDay == Rat(SecondsPerDay, rows[2].t - rows[1].t)
    IN  IF n > 1 /\ MaxT(rows) = MinT(rows) THEN Raise("ValueError")
        ELSE IF n = 1 THEN RetTrend([slope |-> NaN, p |-> NaN])
        ELSE IF n = 2
        THEN RetTrend([slope |-> Rat(dy.n * perDay.n, dy.d * perDay.d),
                       p |-> IF dy.n = 0 THEN Num(1) ELSE Num(0)])
        ELSE RetTrend([slope |-> Finite, p |-> Finite])

\* the outcomes of sea_level_rise(data)
sea_level_rise(d) ==
    LET valid == dropna(d.rows)
    IN  IF valid = <<>> THEN {RetTrend([slope |-> Num(0), p |-> Num(1)])}
        ELSE {linregress(s) : s \in sort_index(valid)}

----------------------------------------------------------------------------
(* tidal_analysis *)

\* index.tz_convert("utc").tz_localize(None): the same instants as naive UTC
\* wall-clock times
to_naive_utc(rows, tz) ==
    [i \in 1..Len(rows) |-> [rows[i] EXCEPT !.t = @ - UtcOffset(tz) * SecondsPerHour]]

\* the caller's DataFrame as tidal_analysis leaves it: lines 98-99 assign a new
\* index to the object the caller passed
tidal_analysis_data(d) ==
    IF d.tz # "naive" THEN Frame(to_naive_utc(d.rows, d.tz), d.cols, "naive") ELSE d

\* what goes to uptide.harmonic_analysis: for each valid row the seconds elapsed
\* since start_datetime and the sea level; start is [t, tz]
tidal_analysis_axis(d, start) ==
    LET nd == tidal_analysis_data(d)
        st == IF start.tz # "naive"
              THEN start.t - UtcOffset(start.tz) * SecondsPerHour ELSE start.t
        valid == dropna(nd.rows)
    IN  [i \in 1..Len(valid) |-> [t |-> valid[i].t - st, sl |-> valid[i].sl]]

\* the amplitudes and phases, one pair per constituent, in the order asked for
\* (the values are uptide's)
tidal_analysis_result(constituents) ==
    [i \in 1..Len(constituents) |->
        [name |-> constituents[i], amp |-> Finite, pha |-> Finite]]

----------------------------------------------------------------------------
(* get_longest_contiguous_data, get_gaps_in_data *)

\* (time_diff > hours * 3600).cumsum() at row i of the sorted rows: the first
\* difference is NaT and compares False
GroupOf(s, i, hours) ==
    Cardinality({j \in 2..i : s[j].t - s[j - 1].t > hours * SecondsPerHour})

GroupSize(s, g, hours) ==
    Cardinality({i \in 1..Len(s) : GroupOf(s, i, hours) = g})

\* a variant that takes the last label holding the maximum
idxmax_last(s, hours) ==
    LET groups == {GroupOf(s, i, hours) : i \in 1..Len(s)}
    IN  CHOOSE g \in groups :
            /\ \A h \in groups : GroupSize(s, h, hours) <= GroupSize(s, g, hours)
            /\ \A h \in groups : GroupSize(s, h, hours) = GroupSize(s, g, hours) => h <= g

\* Series.idxmax() of the group sizes: the first label holding the maximum
idxmax(s, hours) ==
    LET groups == {GroupOf(s, i, hours) : i \in 1..Len(s)}
    IN  CHOOSE g \in groups :
            /\ \A h \in groups : GroupSize(s, h, hours) <= GroupSize(s, g, hours)
            /\ \A h \in groups : GroupSize(s, h, hours) = GroupSize(s, g, hours) => g <= h

longest_of(s, d, hours) ==
    LET longest_group == idxmax(s, hours)
        idx == {i \in 1..Len(s) : GroupOf(s, i, hours) = longest_group}
        lo == CHOOSE i \in idx : \A j \in idx : i <= j
    IN  RetFrame(Frame([k \in 1..Cardinality(idx) |-> s[lo + k - 1]], d.cols, d.tz))

\* the outcomes of get_longest_contiguous_data(data, hours): idxmax of an empty
\* Series raises ValueError
get_longest_contiguous_data(d, hours) ==
    LET valid == dropna(d.rows)
    IN  IF valid = <<>> THEN {Raise("ValueError")}
        ELSE {longest_of(s, d, hours) : s \in sort_index(valid)}

\* the rows of gaps_df built from the sorted rows s: time_diff is labelled by the
\* index of the row it was computed at, which is the later of the two rows
gaps_of(s, hours) ==
    LET IsGap(i) == s[i].t - s[i - 1].t > hours * SecondsPerHour
        at == {i \in 2..Len(s) : IsGap(i)}
        Nth(k) == CHOOSE i \in at : Cardinality({j \in at : j < i}) = k - 1
    IN  [k \in 1..Cardinality(at) |->
            [Start    |-> s[Nth(k)].t,
             End      |-> s[Nth(k)].t + (s[Nth(k)].t - s[Nth(k) - 1].t),
             Duration |-> s[Nth(k)].t - s[Nth(k) - 1].t]]

\* the outcomes of get_gaps_in_data(data, hours)
get_gaps_in_data(d, hours) ==
    {RetTable(gaps_of(s, hours)) : s \in sort_index(dropna(d.rows))}

----------------------------------------------------------------------------
(* get_sea_level_rise_per_year *)

\* calculate_for_year: the outcomes for one year
calculate_for_year(year, d) == sea_level_rise(extract_single_year_remove_mean(year, d))

\* the outcomes of the regressions over range(start, end + 1) and the table
\* built from them; an exception of a year's regression ends the call
per_year(d, start, end) ==
    LET years == start..end
        outcomes == [y \in years |-> calculate_for_year(y, d)]
        raising == {y \in years : \E o \in outcomes[y] : o.status # "ok"}
        rowsOf == {f \in [years -> UNION {outcomes[y] : y \in years}] :
                      \A y \in years : f[y] \in outcomes[y] /\ f[y].status = "ok"}
    IN  {Raise("ValueError") : y \in raising}
        \cup {RetTable([k \in 1..(end - start + 1) |->
                   [Year |-> start + k - 1,
                    RateOfChange |-> f[start + k - 1].trend.slope,
                    SignificanceLevel |-> f[start + k - 1].trend.p]]) : f \in rowsOf}

\* a variant whose range of years leaves out the last year
get_sea_level_rise_per_year_short(d) ==
    IF d.rows = <<>> THEN {Raise("TypeError")}
    ELSE per_year(d, YearOf(MinT(d.rows)), YearOf(MaxT(d.rows)) - 1)

\* the outcomes of get_sea_level_rise_per_year(data): min() of the years of an
\* empty index is NaN, which range() refuses
get_sea_level_rise_per_year(d) ==
    IF d.rows = <<>> THEN {Raise("TypeError")}
    ELSE per_year(d, YearOf(MinT(d.rows)), YearOf(MaxT(d.rows)))

----------------------------------------------------------------------------
(* The inputs. *)

DefaultHours == 6

ReportHours == 24

SeqsUpTo(S, n) == UNION {[1..k -> S] : k \in 0..n}

\* the readings of the station: a date, a time and the sea level measured then
Observed == {<<<<1946, 1, 1>>, <<0, 0, 0>>, 1>>, <<<<1946, 1, 1>>, <<6, 0, 0>>, 2>>,
             <<<<1946, 1, 1>>, <<23, 30, 0>>, 1>>, <<<<1948, 3, 1>>, <<0, 0, 0>>, 2>>}

\* a row holds the reading or, where the reading was flagged, no value
Rows == UNION {{[t |-> to_datetime(o[1], o[2]), sl |-> v, res |-> Num(0)] :
                   v \in {NaN, Num(o[3])}} : o \in Observed}

\* a fourth column of another name
AltCols == <<"Date", "Time", "Sea Level", "Surge">>

\* the DataFrames a caller hands over
GivenFrames == {Frame(r, StdCols, tz) : r \in SeqsUpTo(Rows, MaxLen), tz \in Zones}

\* the second operands of join_data: the first operand itself, and the empty and
\* the one-record frames of either schema on the same timeline
Others(d) ==
    {d} \cup {Frame(r, c, d.tz) : r \in SeqsUpTo(Rows, 1), c \in {StdCols, AltCols}}

\* station files: eleven header lines, then data lines; a flagged sea level
\* carries the letter M
HeaderLine == [cycle |-> 0, date |-> <<0, 0, 0>>, time |-> <<0, 0, 0>>,
               sl |-> [val |-> NaN, flag |-> "header"],
               res |-> [val |-> NaN, flag |-> "header"]]

DataLines ==
    {[cycle |-> 1, date |-> o[1], time |-> o[2],
      sl |-> [val |-> Num(o[3]), flag |-> f], res |-> [val |-> Num(0), flag |-> ""]] :
        o \in Observed, f \in {"", "M"}}

Files == {[i \in 1..(SkipRows + 1) |-> HeaderLine] \o body :
             body \in SeqsUpTo(DataLines, MaxFileLines)}

Years == {1946, 1947, 1948}

Days == {19460101, 19460102, 19480301}

----------------------------------------------------------------------------
(* The program: a caller holds a DataFrame, data, and calls a function of the  *)
(* module on it.  input is data as it was when the call was made, args the     *)
(* other arguments, ret what the call handed back.                             *)

Init ==
    /\ op \in {"start", "given"}
    /\ data \in IF op = "start" THEN {NoFrame} ELSE GivenFrames
    /\ input = data
    /\ args = [none |-> TRUE]
    /\ ret = Nothing

\* the caller holds a series and no call is under way
Loaded == op \in {"given", "read_tidal_data"}

\* the first pass of the loop over the station files:
\* ALL_DATA = read_tidal_data(file)
ReadTidalData ==
    /\ op = "start"
    /\ \E file \in Files :
        /\ ret' = RetFrame(read_tidal_data(file))
        /\ args' = [file |-> file]
    /\ data' = ret'.frame
    /\ input' = data
    /\ op' = "read_tidal_data"

ExtractSingleYear ==
    /\ Loaded
    /\ \E year \in Years :
        /\ ret' = RetFrame(extract_single_year_remove_mean(year, data))
        /\ args' = [year |-> year]
    /\ input' = data
    /\ op' = "extract_single_year_remove_mean"
    /\ UNCHANGED data

ExtractSection ==
    /\ Loaded
    /\ \E start \in Days : \E end \in {e \in Days : start <= e} :
        /\ ret' = extract_section_remove_mean(start, end, data)
        /\ args' = [start |-> start, end |-> end]
    /\ input' = data
    /\ op' = "extract_section_remove_mean"
    /\ UNCHANGED data

JoinData ==
    /\ Loaded
    /\ \E other \in Others(data) :
        /\ \E f \in join_data(data, other) : ret' = RetFrame(f)
        /\ args' = [other |-> other]
    /\ input' = data
    /\ op' = "join_data"
    /\ UNCHANGED data

SeaLevelRise ==
    /\ Loaded
    /\ ret' \in sea_level_rise(data)
    /\ args' = [none |-> TRUE]
    /\ input' = data
    /\ op' = "sea_level_rise"
    /\ UNCHANGED data

\* uptide.harmonic_analysis returns the fit or raises (a singular system); the
\* caller passes the first timestamp of the series, as the script does
TidalAnalysis ==
    /\ Loaded
    /\ data.rows # <<>>
    /\ \E constituents \in {<<"M2", "S2">>}, outcome \in {"ok", "LinAlgError"} :
        LET start == [t |-> data.rows[1].t, tz |-> data.tz]
        IN  /\ ret' = IF outcome = "ok"
                      THEN RetTable(tidal_analysis_result(constituents))
                      ELSE Raise(outcome)
            /\ args' = [constituents |-> constituents, start |-> start,
                        axis |-> tidal_analysis_axis(data, start)]
    /\ data' = tidal_analysis_data(data)
    /\ input' = data
    /\ op' = "tidal_analysis"

GetLongestContiguousData ==
    /\ Loaded
    /\ \E hours \in {DefaultHours, ReportHours} :
        /\ ret' \in get_longest_contiguous_data(data, hours)
        /\ args' = [hours |-> hours]
    /\ input' = data
    /\ op' = "get_longest_contiguous_data"
    /\ UNCHANGED data

GetGapsInData ==
    /\ Loaded
    /\ \E hours \in {DefaultHours, ReportHours} :
        /\ ret' \in get_gaps_in_data(data, hours)
        /\ args' = [hours |-> hours]
    /\ input' = data
    /\ op' = "get_gaps_in_data"
    /\ UNCHANGED data

GetSeaLevelRisePerYear ==
    /\ Loaded
    /\ ret' \in get_sea_level_rise_per_year(data)
    /\ args' = [none |-> TRUE]
    /\ input' = data
    /\ op' = "get_sea_level_rise_per_year"
    /\ UNCHANGED data

\* the later passes of the loop: ALL_DATA = join_data(ALL_DATA, file_data)
Adopt ==
    /\ op = "join_data"
    /\ ret.status = "ok"
    /\ Len(ret.frame.rows) <= MaxLen
    /\ data' = ret.frame
    /\ input' = ret.frame
    /\ op' = "given"
    /\ args' = [none |-> TRUE]
    /\ ret' = Nothing

Next ==
    \/ ReadTidalData
    \/ ExtractSingleYear
    \/ ExtractSection
    \/ JoinData
    \/ SeaLevelRise
    \/ TidalAnalysis
    \/ GetLongestContiguousData
    \/ GetGapsInData
    \/ GetSeaLevelRisePerYear
    \/ Adopt

Spec == Init /\ [][Next]_vars

----------------------------------------------------------------------------
(* The properties. *)

Ascending(rows) == \A i \in 1..(Len(rows) - 1) : rows[i].t <= rows[i + 1].t

StrictlyAscending(rows) == \A i \in 1..(Len(rows) - 1) : rows[i].t < rows[i + 1].t

Count(r, rows) == Cardinality({i \in 1..Len(rows) : rows[i] = r})

RowsOf(rows) == {rows[i] : i \in 1..Len(rows)}

ValidRows(rows) == SelectSeq(rows, HasValue)

ValidTimes(rows) == {rows[i].t : i \in {j \in 1..Len(rows) : HasValue(rows[j])}}

Threshold == args.hours * 3600

Merging == op = "join_data" /\ input.cols = args.other.cols

FallingBack == op = "join_data" /\ input.cols # args.other.cols

Slicing ==
    op \in {"extract_single_year_remove_mean", "extract_section_remove_mean"}
    /\ ret.status = "ok"

\* C1: join_data on two frames whose columns differ raises nothing and returns
\* its first argument as it is: the same rows in the same order, none of the second
C1_MismatchReturnsFirst ==
    FallingBack => ret.status = "ok" /\ ret.frame = input

C1_Witness ==
    /\ FallingBack
    /\ args.other.rows # <<>>
    /\ Len(input.rows) >= 2 /\ ~Ascending(input.rows)
    /\ ret.frame = input

\* C2: join_data on two frames of the same columns returns the rows of both, each
\* as often as the two hold it together (equal timestamps are all kept), in
\* ascending order of timestamp; its length is the sum of the two lengths
C2_MergeIsSortedUnion ==
    Merging =>
        /\ ret.status = "ok"
        /\ Len(ret.frame.rows) = Len(input.rows) + Len(args.other.rows)
        /\ \A r \in RowsOf(ret.frame.rows) \cup RowsOf(input.rows) \cup RowsOf(args.other.rows) :
              Count(r, ret.frame.rows) = Count(r, input.rows) + Count(r, args.other.rows)
        /\ Ascending(ret.frame.rows)
        /\ args.other = input => Len(ret.frame.rows) = 2 * Len(input.rows)

C2_Witness ==
    /\ Merging
    /\ args.other = input
    /\ Len(input.rows) >= 2 /\ ~Ascending(input.rows)
    /\ Len(ret.frame.rows) = 2 * Len(input.rows)

MinYear(rows) == CHOOSE y \in {YearOf(rows[i].t) : i \in 1..Len(rows)} :
                     \A i \in 1..Len(rows) : y <= YearOf(rows[i].t)

MaxYear(rows) == CHOOSE y \in {YearOf(rows[i].t) : i \in 1..Len(rows)} :
                     \A i \in 1..Len(rows) : y >= YearOf(rows[i].t)

ValidInYear(rows, y) ==
    Cardinality({i \in 1..Len(rows) : HasValue(rows[i]) /\ YearOf(rows[i].t) = y})

\* C4: get_sea_level_rise_per_year raises nothing on a non-empty series and gives
\* every year that has no or one valid sea level the row (0.0, 1.0); sea_level_rise
\* on a series without a valid sea level returns (0.0, 1.0)
C4_InsufficientYearsGetDefault ==
    /\ (op = "get_sea_level_rise_per_year" /\ input.rows # <<>>) =>
          /\ ret.status = "ok"
          /\ \A k \in 1..Len(ret.table) :
                ValidInYear(input.rows, ret.table[k].Year) <= 1 =>
                    /\ ret.table[k].RateOfChange = Num(0)
                    /\ ret.table[k].SignificanceLevel = Num(1)
    /\ (op = "sea_level_rise" /\ ValidTimes(input.rows) = {}) =>
          ret = RetTrend([slope |-> Num(0), p |-> Num(1)])

Consecutive(T, a, b) == a \in T /\ b \in T /\ a < b /\ ~\E c \in T : a < c /\ c < b

\* C5: get_gaps_in_data returns, in chronological order, one gap for each pair of
\* consecutive valid observations more than hours * 3600 seconds apart and no
\* other; its Start is the earlier observation, its End the later one, its
\* duration their distance in seconds
C5_GapsFromEarlierObservation ==
    op = "get_gaps_in_data" =>
        LET T == ValidTimes(input.rows)
            G == ret.table
        IN  /\ ret.status = "ok"
            /\ \A k \in 1..Len(G) :
                  /\ Consecutive(T, G[k].Start, G[k].End)
                  /\ G[k].Duration = G[k].End - G[k].Start
                  /\ G[k].Duration > Threshold
            /\ \A k \in 1..(Len(G) - 1) : G[k].Start < G[k + 1].Start
            /\ \A a \in T, b \in T :
                  (Consecutive(T, a, b) /\ b - a > Threshold) =>
                      \E k \in 1..Len(G) : G[k].Start = a

\* C6: on a series with fewer than two valid records get_gaps_in_data finds no
\* gap and get_longest_contiguous_data raises nothing and returns the valid
\* records (none when there is none)
C6_FewRecordsAreHarmless ==
    (op \in {"get_gaps_in_data", "get_longest_contiguous_data"}
     /\ Len(ValidRows(input.rows)) < 2) =>
        /\ ret.status = "ok"
        /\ op = "get_gaps_in_data" => ret.table = <<>>
        /\ op = "get_longest_contiguous_data" => ret.frame.rows = ValidRows(input.rows)

\* C7: extract_section_remove_mean keeps the records from start 00:00:00 to the
\* last second of the day end, and no others
C7_SectionCoversLastDay ==
    (op = "extract_section_remove_mean" /\ ret.status = "ok") =>
        LET first == ParseYmd(args.start)
            after == ParseYmd(args.end) + SecondsPerDay
            InWindow(r) == first <= r.t /\ r.t < after
            kept == SelectSeq(input.rows, InWindow)
        IN  /\ Len(ret.frame.rows) = Len(kept)
            /\ \A i \in 1..Len(kept) : ret.frame.rows[i].t = kept[i].t

AnalysisCalls ==
    {"extract_single_year_remove_mean", "extract_section_remove_mean", "join_data",
     "sea_level_rise", "tidal_analysis", "get_longest_contiguous_data",
     "get_gaps_in_data", "get_sea_level_rise_per_year"}

\* C8: no call changes the series it is given: after it the caller's series has
\* the timestamps, the timezone, the values and the order it had before
C8_InputUnchanged ==
    op \in AnalysisCalls => data = input

\* C9, as stated: the series join_data and the two slicing functions return is
\* ordered strictly ascending by timestamp
C9_StrictlyAscendingAlways ==
    ((op = "join_data" /\ ret.status = "ok") \/ Slicing) => StrictlyAscending(ret.frame.rows)

\* C9, amended: the series join_data returns when it merges is ordered ascending
\* by timestamp (equal timestamps side by side); the series it returns when it
\* falls back, and the series a slicing function returns, is ascending when the
\* series given is, and strictly ascending when the series given is
C9_AscendingAfterMerge ==
    /\ Merging => Ascending(ret.frame.rows)
    /\ (FallingBack \/ Slicing) =>
          /\ Ascending(input.rows) => Ascending(ret.frame.rows)
          /\ StrictlyAscending(input.rows) => StrictlyAscending(ret.frame.rows)

C9_Witness ==
    /\ Merging
    /\ ~Ascending(input.rows \o args.other.rows)
    /\ Ascending(ret.frame.rows) /\ ~StrictlyAscending(ret.frame.rows)

\* rows lo..hi of s are a group: a gap before, a gap after, none inside
IsRun(s, lo, hi, thr) ==
    /\ 1 <= lo /\ lo <= hi /\ hi <= Len(s)
    /\ lo = 1 \/ s[lo].t - s[lo - 1].t > thr
    /\ hi = Len(s) \/ s[hi + 1].t - s[hi].t > thr
    /\ \A i \in (lo + 1)..hi : s[i].t - s[i - 1].t <= thr

\* C10: for a series with a valid record get_longest_contiguous_data returns, in
\* ascending order, a whole group of the valid records sorted and cut after every
\* difference above hours * 3600 seconds: one with the most records, and the
\* first of those; no difference inside it is above the threshold
C10_LongestRunFirstOfTies ==
    (op = "get_longest_contiguous_data" /\ ValidRows(input.rows) # <<>>) =>
        LET V == ValidRows(input.rows)
            R == ret.frame.rows
            n == Len(V)
        IN  /\ ret.status = "ok"
            /\ ret.frame.cols = input.cols /\ ret.frame.tz = input.tz
            /\ \E s \in Arrangements(V, 1..n) : \E lo \in 1..n, hi \in 1..n :
                  /\ IsRun(s, lo, hi, Threshold)
                  /\ R = SubSeq(s, lo, hi)
                  /\ \A l2 \in 1..n, h2 \in 1..n :
                        IsRun(s, l2, h2, Threshold) =>
                            /\ h2 - l2 <= hi - lo
                            /\ l2 < lo => h2 - l2 < hi - lo

C10_Witness ==
    /\ op = "get_longest_contiguous_data" /\ ret.status = "ok"
    /\ Len(ValidRows(input.rows)) = 2 * Len(ret.frame.rows)
    /\ Len(input.rows) > Len(ValidRows(input.rows))
    /\ ~Ascending(input.rows)
    /\ \A i \in 1..Len(ValidRows(input.rows)) :
          ret.frame.rows[1].t <= ValidRows(input.rows)[i].t

====
